---- MODULE Spec2Model ----
(***************************************************************************)
(* Streaming verification of a byte stream against a detached hash tree    *)
(* (validate_bao), the ProgressReader that counts the bytes read from the  *)
(* data source, and the Progress channel that carries progress events to   *)
(* a consumer.  Source: third-party/iroh/src/util.rs.                      *)
(*                                                                         *)
(* The hash function is modelled as an injective encoding (no collisions): *)
(* a hash is the integer sequence that serialises what was hashed.         *)
(***************************************************************************)
EXTENDS Integers, Sequences, FiniteSets, TLC

\* ---------------------------------------------------------------- bounds
\* longest content, in bytes
MaxLen == 5
\* bytes per chunk group of the hash tree (model scale)
ChunkSize == 2
\* capacity of the BufReader around the ProgressReader (model scale of 1 MiB)
BufCap == 4
\* capacity of the consumer's mpsc queue
QueueCap == 2
\* number of I/O errors the data source may return in one run
MaxErrors == 1
\* number of events the free-standing producer emits
MaxEvents == 4

\* the longest path, in characters
MaxPathLen == 4

\* the longest path of a pair of paths, in characters
MaxPairLen == 3

\* the longest text after the hostname of a host, in characters
MaxPortLen == 5

Min(a, b) == IF a < b THEN a ELSE b

Last(s) == s[Len(s)]

\* ------------------------------------------------------------ hash tree
NumChunks(len) == IF len = 0 THEN 1 ELSE (len + ChunkSize - 1) \div ChunkSize

ChunkLen(len, i) == Min(ChunkSize, len - i * ChunkSize)

ChunkBytes(data, i) == SubSeq(data, i * ChunkSize + 1, Min(Len(data), (i + 1) * ChunkSize))

RECURSIVE Pow2Below(_, _)
\* the largest power of two strictly below n (n >= 2), from p = 1
Pow2Below(n, p) == IF 2 * p < n THEN Pow2Below(n, 2 * p) ELSE p

Flag(b) == IF b THEN 1 ELSE 0

ChunkHash(i, bytes, root) == <<0, i, Flag(root), Len(bytes)>> \o bytes

ParentHash(l, r, root) == <<1, Flag(root), Len(l)>> \o l \o r

RECURSIVE TreeHash(_, _, _, _)
TreeHash(data, first, n, root) ==
    IF n = 1
    THEN ChunkHash(first, ChunkBytes(data, first), root)
    ELSE LET k == Pow2Below(n, 1)
         IN  ParentHash(TreeHash(data, first, k, FALSE),
                        TreeHash(data, first + k, n - k, FALSE), root)

RECURSIVE Parents(_, _, _)
\* the parent nodes of the tree over chunks first .. first+n-1, in pre-order
Parents(data, first, n) ==
    IF n = 1
    THEN <<>>
    ELSE LET k == Pow2Below(n, 1)
         IN  <<[left  |-> TreeHash(data, first, k, FALSE),
                right |-> TreeHash(data, first + k, n - k, FALSE)]>>
             \o Parents(data, first, k) \o Parents(data, first + k, n - k)

\* Hash::new / the root of the tree, and the outboard computed honestly
RootHash(data) == TreeHash(data, 0, NumChunks(Len(data)), TRUE)

Outboard(data) == [len |-> Len(data), nodes |-> Parents(data, 0, NumChunks(Len(data)))]

\* ------------------------------------------------------------ variables
VARIABLES
    content,        \* the content C the root hash and the outboard were made for
    stream,         \* the bytes the data source holds
    hash,           \* the root hash handed to validate_bao
    outboard,       \* the outboard handed to validate_bao
    srcPos,         \* bytes of stream the data source has returned
    errBudget,      \* I/O errors the data source may still return
    offset,         \* ProgressReader.offset
    cbLog,          \* every ProgressReaderUpdate handed to ProgressReader.cb
    buf,            \* bytes held by the BufReader
    dec,            \* the decoder: header parsed, declared length, stack, outboard cursor
    chunkBuf,       \* bytes of the chunk being filled by read_exact
    pc,             \* position of validate_bao
    result,         \* what validate_bao returned
    errKind,        \* the io error inside Err(IoError(_))
    returned,       \* bytes returned by decoder.read to validate_bao (sum of Ok(n))
    verified,       \* bytes of the stream checked against the hash tree
    srcReads,       \* history: outcome of every read of the data source
    progressCalls,  \* arguments of every call of validate_bao's progress callback
    chan,           \* the Progress channel: Option<Sender>, queue, receiver closed
    received,       \* what the consumer has received
    emitted,        \* every message handed to try_send or send
    sendPc,         \* the task calling Progress::send: idle or awaiting
    sendRet,        \* what the last completed Progress::send returned
    orig,           \* the argument a pure function of the module is applied to
    val,            \* the value the functions applied so far have produced
    trace           \* the functions applied so far, in order

verifierVars == <<content, stream, hash, outboard, srcPos, errBudget, offset, cbLog, buf,
                  dec, chunkBuf, pc, result, errKind, returned, verified, srcReads,
                  progressCalls>>

chanVars == <<chan, received, emitted, sendPc, sendRet>>

pureVars == <<orig, val, trace>>

vars == <<verifierVars, chanVars, pureVars>>

\* no pure function is being applied
PureOff == orig = <<>> /\ val = <<>> /\ trace = <<>>

\* ------------------------------------------------------ Progress channel
\* messages carry the index of their emission, so that two emissions differ
Msg(id, kind, n, via) == [id |-> id, kind |-> kind, n |-> n, via |-> via]

Progress_new == [sender |-> TRUE, queue |-> <<>>, closed |-> FALSE]

Progress_none == [sender |-> FALSE, queue |-> <<>>, closed |-> FALSE]

\* tokio mpsc Sender::try_send: Err(Closed), Err(Full) or the message is queued
MpscTrySend(ch, msg) ==
    IF ch.closed THEN [chan |-> ch, ret |-> "Closed"]
    ELSE IF Len(ch.queue) >= QueueCap THEN [chan |-> ch, ret |-> "Full"]
    ELSE [chan |-> [ch EXCEPT !.queue = Append(@, msg)], ret |-> "Ok"]

\* one poll of tokio mpsc Sender::send: Err when the receiver is closed, Pending
\* while the queue is full, else the message is queued
MpscSendPoll(ch, msg) ==
    IF ch.closed THEN [chan |-> ch, ret |-> "Err"]
    ELSE IF Len(ch.queue) >= QueueCap THEN [chan |-> ch, ret |-> "Pending"]
    ELSE [chan |-> [ch EXCEPT !.queue = Append(@, msg)], ret |-> "Ok"]

\* try_send written with the awaiting send: a full queue suspends the producer
try_send_awaiting(ch, msg) ==
    IF ch.sender
    THEN [chan |-> MpscSendPoll(ch, msg).chan,
          ret |-> IF MpscSendPoll(ch, msg).ret = "Pending" THEN "Pending" ELSE "unit",
          inner |-> MpscSendPoll(ch, msg).ret]
    ELSE [chan |-> ch, ret |-> "unit", inner |-> "None"]

\* try_send that ignores the Option and queues on a disabled channel
try_send_unguarded(ch, msg) ==
    [chan |-> [ch EXCEPT !.queue = IF Len(@) < QueueCap THEN Append(@, msg) ELSE @],
     ret |-> "unit", inner |-> "Ok"]

\* Progress::try_send: the result of the sender's try_send is discarded (.ok())
try_send(ch, msg) ==
    IF ch.sender
    THEN [chan |-> MpscTrySend(ch, msg).chan, ret |-> "unit", inner |-> MpscTrySend(ch, msg).ret]
    ELSE [chan |-> ch, ret |-> "unit", inner |-> "None"]

\* send that swallows the sender's error, as try_send does
send_swallowing(ch, msg) ==
    IF ch.sender
    THEN [chan |-> MpscSendPoll(ch, msg).chan,
          ret |-> IF MpscSendPoll(ch, msg).ret = "Err" THEN "Ok" ELSE MpscSendPoll(ch, msg).ret]
    ELSE [chan |-> ch, ret |-> "Ok"]

\* send written with try_send: a full queue drops the message
send_lossy(ch, msg) ==
    IF ch.sender
    THEN [chan |-> MpscTrySend(ch, msg).chan, ret |-> "Ok"]
    ELSE [chan |-> ch, ret |-> "Ok"]

\* send that first tries try_send and then sends anyway
send_twice(ch, msg) ==
    IF ch.sender
    THEN [chan |-> MpscSendPoll(MpscTrySend(ch, msg).chan, msg).chan,
          ret |-> MpscSendPoll(MpscTrySend(ch, msg).chan, msg).ret]
    ELSE [chan |-> ch, ret |-> "Ok"]

\* one poll of Progress::send: the sender's error is propagated (?), no sender is Ok
send(ch, msg) ==
    IF ch.sender
    THEN [chan |-> MpscSendPoll(ch, msg).chan, ret |-> MpscSendPoll(ch, msg).ret]
    ELSE [chan |-> ch, ret |-> "Ok"]

\* --------------------------------------------------------- ProgressReader
Progress(x) == [kind |-> "Progress", n |-> x]

Done == [kind |-> "Done", n |-> 0]

\* a constructor that already reports the offset 0 to the callback
ProgressReader_new_reporting ==
    [offset |-> 0, updates |-> <<[kind |-> "Progress", n |-> 0, verified |-> 0]>>]

ProgressReader_new == [offset |-> 0, updates |-> <<>>]

\* read that stores the size of this read instead of adding it to the offset
ProgressReader_read_no_sum(off, outcome) ==
    IF ~outcome.ok
    THEN [offset |-> off, updates |-> <<>>, ret |-> outcome]
    ELSE [offset |-> outcome.n, updates |-> <<Progress(outcome.n)>>, ret |-> outcome]

\* read that reports the offset before adding the bytes of this read
ProgressReader_read_stale(off, outcome) ==
    IF ~outcome.ok
    THEN [offset |-> off, updates |-> <<>>, ret |-> outcome]
    ELSE [offset |-> off + outcome.n, updates |-> <<Progress(off)>>, ret |-> outcome]

\* read that takes an error of the inner reader for the end of the source
ProgressReader_read_err_as_eof(off, outcome) ==
    IF ~outcome.ok
    THEN [offset |-> off, updates |-> <<Progress(off)>>, ret |-> [ok |-> TRUE, n |-> 0, kind |-> "none"]]
    ELSE [offset |-> off + outcome.n, updates |-> <<Progress(off + outcome.n)>>, ret |-> outcome]

\* read that reports the end of the source as Done
ProgressReader_read_done_at_eof(off, outcome) ==
    IF ~outcome.ok THEN [offset |-> off, updates |-> <<>>, ret |-> outcome]
    ELSE [offset |-> off + outcome.n,
          updates |-> IF outcome.n = 0 THEN <<Progress(off), Done>>
                      ELSE <<Progress(off + outcome.n)>>,
          ret |-> outcome]

\* read that calls the callback before it looks at the result of the inner read
ProgressReader_read_notify_first(off, outcome) ==
    IF ~outcome.ok THEN [offset |-> off, updates |-> <<Progress(off)>>, ret |-> outcome]
    ELSE [offset |-> off + outcome.n, updates |-> <<Progress(off + outcome.n)>>, ret |-> outcome]

\* read that reports only reads that advance the offset
ProgressReader_read_skip_empty(off, outcome) ==
    IF ~outcome.ok THEN [offset |-> off, updates |-> <<>>, ret |-> outcome]
    ELSE [offset |-> off + outcome.n,
          updates |-> IF outcome.n = 0 THEN <<>> ELSE <<Progress(off + outcome.n)>>,
          ret |-> outcome]

\* ProgressReader::read on an inner read that returned `outcome`
ProgressReader_read(off, outcome) ==
    IF ~outcome.ok
    THEN [offset |-> off, updates |-> <<>>, ret |-> outcome]
    ELSE [offset |-> off + outcome.n, updates |-> <<Progress(off + outcome.n)>>, ret |-> outcome]

\* a ProgressReader without the Drop impl
ProgressReader_drop_silent == <<>>

\* Drop for ProgressReader
ProgressReader_drop == <<Done>>

\* the closure validate_bao gives to ProgressReader::new: the calls of `progress`
\* it makes for one update
\* a closure that forwards every update, Done as the count 0
ProgressCb_all(update) == <<update.n>>

ProgressCb(update) == IF update.kind = "Progress" THEN <<update.n>> ELSE <<>>

\* ------------------------------------------------------------- decoder
Ok(n) == [ok |-> TRUE, n |-> n, kind |-> "none"]

Err(kind) == [ok |-> FALSE, n |-> 0, kind |-> kind]

Decoder_new(h) == [header |-> FALSE, clen |-> 0, root |-> h, stack |-> <<>>, obPos |-> 0]

RECURSIVE Advance(_, _)
\* the decoder's next step that needs the data source: the header and the parent
\* nodes are read from the outboard and checked on the way
Advance(d, ob) ==
    IF ~d.header
    THEN Advance([d EXCEPT !.header = TRUE, !.clen = ob.len,
                           !.stack = <<[hash |-> d.root, first |-> 0,
                                        n |-> NumChunks(ob.len), root |-> TRUE]>>], ob)
    ELSE IF d.stack = <<>> THEN [dec |-> d, next |-> "Done"]
    ELSE LET top == Head(d.stack)
         IN  IF top.n = 1 THEN [dec |-> d, next |-> "Chunk"]
             ELSE IF d.obPos >= Len(ob.nodes) THEN [dec |-> d, next |-> "UnexpectedEof"]
             ELSE LET node == ob.nodes[d.obPos + 1]
                      k == Pow2Below(top.n, 1)
                  IN  IF ParentHash(node.left, node.right, top.root) # top.hash
                      THEN [dec |-> d, next |-> "HashMismatch"]
                      ELSE Advance([d EXCEPT !.obPos = @ + 1,
                                      !.stack = <<[hash |-> node.left, first |-> top.first,
                                                   n |-> k, root |-> FALSE],
                                                  [hash |-> node.right, first |-> top.first + k,
                                                   n |-> top.n - k, root |-> FALSE]>>
                                                \o Tail(@)], ob)

\* size of the chunk on top of the stack
ChunkSizeOf(d) == ChunkLen(d.clen, Head(d.stack).first)

\* feed_chunk: the hash of the bytes read against the hash the tree expects
FeedChunk(d, bytes) ==
    LET top == Head(d.stack)
    IN  IF ChunkHash(top.first, bytes, top.root) = top.hash
        THEN [ret |-> Ok(Len(bytes)), dec |-> [d EXCEPT !.stack = Tail(@)]]
        ELSE [ret |-> Err("HashMismatch"), dec |-> d]

\* ---------------------------------------------------------- validate_bao
\* the loop with the error arm breaking out instead of returning Err
LoopStep_break_on_err(ret) ==
    IF ret.ok /\ ret.n # 0
    THEN [pc |-> "loop", result |-> "none", err |-> "none"]
    ELSE [pc |-> "returned", result |-> "Ok", err |-> "none"]

\* the loop taking an unexpected end of the source for the end of the stream
LoopStep_eof_is_end(ret) ==
    IF ret.ok
    THEN IF ret.n = 0
         THEN [pc |-> "returned", result |-> "Ok", err |-> "none"]
         ELSE [pc |-> "loop", result |-> "none", err |-> "none"]
    ELSE IF ret.kind = "UnexpectedEof"
         THEN [pc |-> "returned", result |-> "Ok", err |-> "none"]
         ELSE [pc |-> "returned", result |-> "Err", err |-> ret.kind]

\* the loop with an error arm that goes on reading
LoopStep_retry_on_err(ret) ==
    IF ret.ok /\ ret.n = 0
    THEN [pc |-> "returned", result |-> "Ok", err |-> "none"]
    ELSE [pc |-> "loop", result |-> "none", err |-> "none"]

\* the loop without the break on a read of 0 bytes
LoopStep_no_break(ret) ==
    IF ret.ok
    THEN [pc |-> "loop", result |-> "none", err |-> "none"]
    ELSE [pc |-> "returned", result |-> "Err", err |-> ret.kind]

\* the match on decoder.read in the loop of validate_bao
LoopStep(ret) ==
    IF ret.ok
    THEN IF ret.n = 0
         THEN [pc |-> "returned", result |-> "Ok", err |-> "none"]
         ELSE [pc |-> "loop", result |-> "none", err |-> "none"]
    ELSE [pc |-> "returned", result |-> "Err", err |-> ret.kind]

\* BaoValidationError: the one variant the enum has, wrapping the io error
IoError(e) == [variant |-> "IoError", error |-> e]

\* the value validate_bao returns
BaoResult == IF result = "Err" THEN IoError(errKind) ELSE [variant |-> result, error |-> "none"]

\* the progress callback the caller of validate_bao passes in: every count goes
\* to the Progress channel through try_send
ProgressMsg(em, x) == Msg(Len(em) + 1, "Progress", x, "try_send")

ProgressSink(ch, em, x) == try_send(ch, ProgressMsg(em, x))

RECURSIVE Calls(_)
\* the calls of `progress` made for a sequence of updates
Calls(ups) == IF ups = <<>> THEN <<>> ELSE ProgressCb(Head(ups)) \o Calls(Tail(ups))

RECURSIVE Deliver(_, _)
\* the channel after the progress callback ran for each count of `calls`
Deliver(st, calls) ==
    IF calls = <<>> THEN st
    ELSE LET r == ProgressSink(st.chan, st.emitted, Head(calls))
         IN  Deliver([chan |-> r.chan,
                      emitted |-> Append(st.emitted, ProgressMsg(st.emitted, Head(calls)))],
                     Tail(calls))

\* the ProgressReader hands `ups` to its callback
Notify(ups) ==
    LET st == Deliver([chan |-> chan, emitted |-> emitted], Calls(ups))
    IN  /\ cbLog' = cbLog \o [i \in 1..Len(ups) |->
                                [kind |-> ups[i].kind, n |-> ups[i].n, verified |-> verified]]
        /\ progressCalls' = progressCalls \o Calls(ups)
        /\ chan' = st.chan
        /\ emitted' = st.emitted
        /\ UNCHANGED <<received, sendPc, sendRet>>

\* decoder.read returned `ret` to the loop of validate_bao, after the
\* ProgressReader handed `ups` to its callback; leaving the function drops the
\* decoder and with it the ProgressReader
Return(ret, ups) ==
    LET st == LoopStep(ret)
    IN  /\ pc' = st.pc
        /\ result' = st.result
        /\ errKind' = st.err
        /\ returned' = returned + (IF ret.ok THEN ret.n ELSE 0)
        /\ Notify(ups \o (IF st.pc = "returned" THEN ProgressReader_drop ELSE <<>>))

\* what one read of the data source may return for a request of req bytes
SourceOutcomes(req) ==
    LET rem == Len(stream) - srcPos
    IN  (IF rem = 0 THEN {Ok(0)} ELSE {Ok(k) : k \in 1..Min(req, rem)})
        \cup (IF errBudget > 0 THEN {Err("Interrupted"), Err("Other")} ELSE {})

\* validate_bao, one turn of its loop: decoder.read(&mut buffer) up to the point
\* where it returns or has to read the data source
validate_bao ==
    /\ pc = "loop"
    /\ LET a == Advance(dec, outboard)
       IN  IF a.next = "Done"
           THEN /\ dec' = a.dec
                /\ Return(Ok(0), <<>>)
                /\ UNCHANGED <<buf, chunkBuf, verified>>
           ELSE IF a.next # "Chunk"
           THEN /\ dec' = a.dec
                /\ Return(Err(a.next), <<>>)
                /\ UNCHANGED <<buf, chunkBuf, verified>>
           ELSE LET size == ChunkSizeOf(a.dec)
                IN  IF Len(buf) >= size
                    THEN LET f == FeedChunk(a.dec, SubSeq(buf, 1, size))
                         IN  /\ dec' = f.dec
                             /\ buf' = SubSeq(buf, size + 1, Len(buf))
                             /\ verified' = verified + (IF f.ret.ok THEN size ELSE 0)
                             /\ Return(f.ret, <<>>)
                             /\ UNCHANGED chunkBuf
                    ELSE /\ dec' = a.dec
                         /\ chunkBuf' = buf
                         /\ buf' = <<>>
                         /\ pc' = "fill"
                         /\ UNCHANGED <<result, errKind, returned, verified, cbLog,
                                        progressCalls, chanVars>>
    /\ UNCHANGED <<pureVars, content, stream, hash, outboard, srcPos, errBudget, offset, srcReads>>

\* ProgressReader::read, called by the BufReader for read_exact, and what the
\* BufReader, the decoder and the loop of validate_bao do with its result
SourceRead ==
    /\ pc = "fill"
    /\ LET size == ChunkSizeOf(dec)
           need == size - Len(chunkBuf)
           req  == IF need >= BufCap THEN need ELSE BufCap
       IN  \E outcome \in SourceOutcomes(req) :
             LET r == ProgressReader_read(offset, outcome)
                 n == IF r.ret.ok THEN r.ret.n ELSE 0
                 data == SubSeq(stream, srcPos + 1, srcPos + n)
                 take == Min(n, need)
                 chunk2 == chunkBuf \o SubSeq(data, 1, take)
             IN  /\ offset' = r.offset
                 /\ srcPos' = srcPos + n
                 /\ srcReads' = Append(srcReads, outcome)
                 /\ errBudget' = IF outcome.ok THEN errBudget ELSE errBudget - 1
                 /\ IF ~r.ret.ok
                    THEN IF r.ret.kind = "Interrupted"
                         THEN /\ Notify(r.updates)
                              /\ UNCHANGED <<pc, result, errKind, returned, verified, dec,
                                             buf, chunkBuf>>
                         ELSE /\ Return(r.ret, r.updates)
                              /\ UNCHANGED <<verified, dec, buf, chunkBuf>>
                    ELSE IF n = 0
                    THEN /\ Return(Err("UnexpectedEof"), r.updates)
                         /\ UNCHANGED <<verified, dec, buf, chunkBuf>>
                    ELSE IF Len(chunk2) = size
                    THEN LET f == FeedChunk(dec, chunk2)
                         IN  /\ dec' = f.dec
                             /\ chunkBuf' = <<>>
                             /\ buf' = SubSeq(data, take + 1, n)
                             /\ verified' = verified + (IF f.ret.ok THEN size ELSE 0)
                             /\ Return(f.ret, r.updates)
                    ELSE /\ chunkBuf' = chunk2
                         /\ Notify(r.updates)
                         /\ UNCHANGED <<pc, result, errKind, returned, verified, dec, buf>>
    /\ UNCHANGED <<pureVars, content, stream, hash, outboard>>

\* the ProgressReader is dropped before the stream is exhausted
Abandon ==
    /\ pc \in {"loop", "fill"}
    /\ pc' = "dropped"
    /\ Notify(ProgressReader_drop)
    /\ UNCHANGED <<pureVars, content, stream, hash, outboard, srcPos, errBudget, offset, buf, dec,
                   chunkBuf, result, errKind, returned, verified, srcReads>>

\* ---------------------------------------------------------- channel steps
DoneEmitted == \E i \in 1..Len(emitted) : emitted[i].kind = "Done"

\* a call of Progress::send with msg: its first poll
SendCall(msg) ==
    LET r == send(chan, msg)
    IN  /\ sendPc = "idle"
        /\ emitted' = Append(emitted, msg)
        /\ chan' = r.chan
        /\ sendPc' = IF r.ret = "Pending" THEN "awaiting" ELSE "idle"
        /\ sendRet' = IF r.ret = "Pending" THEN sendRet ELSE r.ret
        /\ UNCHANGED received

\* the caller emits the terminal event once the verifier is gone
SendDone ==
    /\ pc \in {"returned", "dropped"}
    /\ ~DoneEmitted
    /\ SendCall(Msg(Len(emitted) + 1, "Done", 0, "send"))
    /\ UNCHANGED <<verifierVars, pureVars>>

\* the awaiting Progress::send is polled again and completes
SendResume ==
    /\ sendPc = "awaiting"
    /\ LET r == send(chan, Last(emitted))
       IN  /\ r.ret # "Pending"
           /\ chan' = r.chan
           /\ sendPc' = "idle"
           /\ sendRet' = r.ret
    /\ UNCHANGED <<received, emitted, verifierVars, pureVars>>

\* the consumer takes the oldest message of the queue
Receive ==
    /\ chan.queue # <<>>
    /\ received' = Append(received, Head(chan.queue))
    /\ chan' = [chan EXCEPT !.queue = Tail(@)]
    /\ UNCHANGED <<emitted, sendPc, sendRet, verifierVars, pureVars>>

\* the consumer closes its receiver
Close ==
    /\ chan.sender
    /\ ~chan.closed
    /\ chan' = [chan EXCEPT !.closed = TRUE]
    /\ UNCHANGED <<received, emitted, sendPc, sendRet, verifierVars, pureVars>>

\* ----------------------------------------------------------------- inputs
\* The hash is injective, so a run depends on the content only through its
\* length and through the positions where the stream differs from it: the
\* content bytes are taken to be 0 and the stream ranges over the differences.
Contents == {[i \in 1..l |-> 0] : l \in 0..MaxLen}

\* c with byte p replaced by another byte
Flip(c, p) == [c EXCEPT ![p] = 1 - @]

\* the streams a data source may hold for content c: c itself, c with one byte
\* changed, a strict prefix of c, c followed by one more byte
Streams(c) ==
    {c} \cup {Flip(c, p) : p \in 1..Len(c)}
        \cup {SubSeq(c, 1, k) : k \in 0..(Len(c) - 1)}
        \cup {Append(c, 1)}

Init ==
    /\ content \in Contents
    /\ stream \in Streams(content)
    /\ hash = RootHash(content)
    /\ outboard = Outboard(content)
    /\ srcPos = 0
    /\ errBudget = MaxErrors
    /\ offset = ProgressReader_new.offset
    /\ cbLog = ProgressReader_new.updates
    /\ buf = <<>>
    /\ dec = Decoder_new(hash)
    /\ chunkBuf = <<>>
    /\ pc = "loop"
    /\ result = "none"
    /\ errKind = "none"
    /\ returned = 0
    /\ verified = 0
    /\ srcReads = <<>>
    /\ progressCalls = <<>>
    /\ chan \in {Progress_new, Progress_none}
    /\ received = <<>>
    /\ emitted = <<>>
    /\ sendPc = "idle"
    /\ sendRet = "none"
    /\ PureOff

Next ==
    \/ validate_bao
    \/ SourceRead
    \/ Abandon
    \/ SendDone
    \/ SendResume
    \/ Receive
    \/ Close

Spec == Init /\ [][Next]_vars

\* ------------------------------------------- the channel with a free producer
\* a producer task that owns a Progress and emits through try_send
ProducerTrySend ==
    /\ pc = "off"
    /\ sendPc = "idle"
    /\ Len(emitted) < MaxEvents
    /\ LET msg == Msg(Len(emitted) + 1, "Progress", Len(emitted) + 1, "try_send")
           r == try_send(chan, msg)
       IN  /\ emitted' = Append(emitted, msg)
           /\ chan' = r.chan
           /\ sendPc' = IF r.ret = "Pending" THEN "awaiting" ELSE "idle"
    /\ UNCHANGED <<received, sendRet, verifierVars, pureVars>>

\* the same producer emits through send
ProducerSend ==
    /\ pc = "off"
    /\ Len(emitted) < MaxEvents
    /\ \E kind \in {"Progress", "Done"} :
         SendCall(Msg(Len(emitted) + 1, kind, Len(emitted) + 1, "send"))
    /\ UNCHANGED <<verifierVars, pureVars>>

ChanInit ==
    /\ content = <<>>
    /\ stream = <<>>
    /\ hash = RootHash(content)
    /\ outboard = Outboard(content)
    /\ srcPos = 0
    /\ errBudget = 0
    /\ offset = 0
    /\ cbLog = <<>>
    /\ buf = <<>>
    /\ dec = Decoder_new(hash)
    /\ chunkBuf = <<>>
    /\ pc = "off"
    /\ result = "none"
    /\ errKind = "none"
    /\ returned = 0
    /\ verified = 0
    /\ srcReads = <<>>
    /\ progressCalls = <<>>
    /\ chan \in {Progress_new, Progress_none}
    /\ received = <<>>
    /\ emitted = <<>>
    /\ sendPc = "idle"
    /\ sendRet = "none"
    /\ PureOff

ChanNext ==
    \/ ProducerTrySend
    \/ ProducerSend
    \/ SendResume
    \/ Receive
    \/ Close

ChanSpec == ChanInit /\ [][ChanNext]_vars

\* ----------------------------------------------------------------- claims
\* the source returned an error that read_exact does not retry
SourceFailed == \E i \in 1..Len(srcReads) : ~srcReads[i].ok /\ srcReads[i].kind # "Interrupted"

\* the cumulative count reported so far (0 before the first call)
LastCount == IF progressCalls = <<>> THEN 0 ELSE Last(progressCalls)

\* the stream differs from the content in exactly the byte at p
FlippedAt(p) == p \in 1..Len(content) /\ stream = Flip(content, p)

\* the chunk that holds byte p (chunks count from 0)
ChunkOf(p) == (p - 1) \div ChunkSize

Truncated == Len(stream) < Len(content) /\ stream = SubSeq(content, 1, Len(stream))

RECURSIVE CountKind(_, _)
CountKind(s, kind) ==
    IF s = <<>> THEN 0
    ELSE (IF Head(s).kind = kind THEN 1 ELSE 0) + CountKind(Tail(s), kind)

\* C1: for content C with its honest root hash and outboard, validate_bao over
\* exactly the bytes of C (the source not failing) returns Ok, and the count
\* last reported to the progress callback is len(C).
C1_HonestStreamVerifies ==
    (pc = "returned" /\ stream = content /\ ~SourceFailed)
        => (result = "Ok" /\ LastCount = Len(content) /\ returned = Len(content))

C1_Witness ==
    /\ pc = "returned" /\ stream = content /\ result = "Ok"
    /\ Len(content) = MaxLen /\ Len(progressCalls) >= 2

\* C2: with the root hash and tree of C and a stream that differs from C in one
\* byte, validate_bao fails, with a hash mismatch unless the source failed
\* first, no later than at the chunk holding that byte, and decoder.read never
\* returns a byte located after that chunk.
C2_OneByteDiffFails ==
    \A p \in 1..Len(content) :
        FlippedAt(p) =>
            /\ returned <= (ChunkOf(p) + 1) * ChunkSize
            /\ verified <= ChunkOf(p) * ChunkSize
            /\ pc = "returned" =>
                 /\ result = "Err"
                 /\ ~SourceFailed => errKind = "HashMismatch"

C2_Witness ==
    /\ pc = "returned" /\ FlippedAt(MaxLen) /\ result = "Err"
    /\ errKind = "HashMismatch" /\ returned = ChunkOf(MaxLen) * ChunkSize

\* C3: when the data source ends with fewer bytes than the tree declares,
\* validate_bao returns an error and never Ok.
C3_TruncatedNeverOk ==
    Truncated => (result # "Ok" /\ (pc = "returned" => result = "Err"))

C3_Witness ==
    /\ pc = "returned" /\ Truncated /\ result = "Err" /\ errKind = "UnexpectedEof"
    /\ returned > 0

C5_DoneExactlyOnce ==
    /\ pc \in {"loop", "fill"} => CountKind(cbLog, "Done") = 0
    /\ pc \in {"returned", "dropped"} =>
         (CountKind(cbLog, "Done") = 1 /\ Last(cbLog).kind = "Done")

C5_Witness ==
    /\ pc = "returned" /\ result = "Err" /\ errKind = "HashMismatch"
    /\ CountKind(cbLog, "Done") = 1 /\ Len(cbLog) >= 3

TrySendStep == emitted' # emitted /\ Last(emitted').via = "try_send"

\* C7: a call of Progress::try_send completes in the step that makes it,
\* whatever the state of the channel, and leaves the producer running; it
\* queues the message when the channel is active, open and has room, and
\* otherwise leaves the channel as it was.
C7_TrySendNeverBlocks ==
    [][TrySendStep =>
         /\ sendPc' = "idle"
         /\ received' = received
         /\ IF chan.sender /\ ~chan.closed /\ Len(chan.queue) < QueueCap
            THEN chan' = [chan EXCEPT !.queue = Append(@, Last(emitted'))]
            ELSE chan' = chan]_vars

C7_Witness ==
    /\ pc = "off" /\ chan.sender /\ ~chan.closed /\ Len(chan.queue) = QueueCap
    /\ emitted # <<>> /\ Last(emitted).via = "try_send"
    /\ \A i \in 1..Len(chan.queue) : chan.queue[i] # Last(emitted)
    /\ sendPc = "idle"

\* C8 as claimed: Progress::send on a disabled or closed channel never returns
\* an error.
C8_SendNeverErrs == (~chan.sender \/ chan.closed) => sendRet # "Err"

\* a step in which a call of Progress::send completes
SendCompletes ==
    \/ emitted' # emitted /\ Last(emitted').via = "send" /\ sendPc' = "idle"
    \/ sendPc = "awaiting" /\ sendPc' = "idle"

\* C8 amended: Progress::send on a disabled channel is a no-op that returns
\* success; on a closed channel it queues nothing and returns the error.
C8_SendDisabledOkClosedErr ==
    [][SendCompletes =>
         IF ~chan.sender THEN sendRet' = "Ok" /\ chan' = chan
         ELSE IF chan.closed THEN sendRet' = "Err" /\ chan' = chan
         ELSE sendRet' = "Ok" /\ chan' = [chan EXCEPT !.queue = Append(@, Last(emitted'))]]_vars

C8_Witness ==
    /\ pc = "off" /\ chan.closed /\ sendRet = "Err" /\ emitted # <<>>
    /\ Last(emitted).via = "send"

\* C9: what the consumer has received and what is queued for it, in this
\* order, is a subsequence of what the producer emitted: every message is the
\* emitted one, and the emission indexes strictly increase.
C9_ReceivedInEmissionOrder ==
    LET seen == received \o chan.queue
    IN  /\ \A i \in 1..Len(seen) :
             seen[i].id \in 1..Len(emitted) /\ emitted[seen[i].id] = seen[i]
        /\ \A i \in 1..(Len(seen) - 1) : seen[i].id < seen[i + 1].id

C9_Witness ==
    /\ pc = "off" /\ Len(received) >= 3
    /\ received[3].id > received[2].id + 1
    /\ received[1].via = "send" /\ received[3].via = "try_send"

\* C10: on a disabled channel nothing is queued, received, awaited or refused,
\* and the result of validate_bao is decided by the content, the stream and the
\* errors of the source alone, so that it is the same with an active and with
\* a disabled channel.
C10_DisabledHasNoEffect ==
    /\ ~chan.sender =>
         (chan = Progress_none /\ received = <<>> /\ sendPc = "idle" /\ sendRet # "Err")
    /\ pc = "returned" =>
         (result = "Ok" <=>
            (/\ Len(stream) >= Len(content)
             /\ SubSeq(stream, 1, Len(content)) = content
             /\ ~SourceFailed))

C10_Witness ==
    /\ ~chan.sender /\ pc = "returned" /\ result = "Ok" /\ Len(emitted) >= 3
    /\ Last(emitted).kind = "Done" /\ sendRet = "Ok"

\* C11: a verification failure (the bytes do not hash to what the tree expects)
\* is reported as an error that is not the IoError a failing source is reported
\* as.
C11_VerificationErrorDistinct ==
    (pc = "returned" /\ result = "Err" /\ errKind = "HashMismatch" /\ ~SourceFailed)
        => BaoResult.variant # "IoError"

Terminal == pc \in {"returned", "dropped"}

\* C12: validate_bao moves from reading to returned and stays there: the step
\* in which decoder.read returns 0 bytes or an error, or in which the source
\* fails, is the step that returns, and from then on neither the decoder nor
\* the data source is read and the result stands.
C12_ExhaustedAndFailedAreTerminal ==
    [][/\ Terminal => UNCHANGED <<pc, result, errKind, dec, buf, chunkBuf, srcPos,
                                  srcReads, offset, returned, verified>>
       /\ SourceFailed' => pc' = "returned"
       /\ (pc' = "returned") <=> (result' \in {"Ok", "Err"})
       /\ (pc \in {"loop", "fill"} /\ pc' = "returned" /\ result' = "Ok")
             => (dec'.header /\ dec'.stack = <<>>)]_vars

C12_Witness ==
    /\ pc = "returned" /\ result = "Err" /\ SourceFailed /\ returned > 0
    /\ DoneEmitted /\ received # <<>>

\* C13 as claimed: every error the data source returns ends validate_bao with
\* Err on that read; the source is not read again.
C13_EverySourceErrorPropagates ==
    \A i \in 1..Len(srcReads) :
        ~srcReads[i].ok => (i = Len(srcReads) /\ pc = "returned" /\ result = "Err")

\* C13 amended: an error of the data source other than Interrupted ends
\* validate_bao with Err carrying that error, on the read where it occurs, and
\* the source is not read again; an Interrupted error is retried by read_exact
\* and is never turned into Ok by itself (the stream must still verify).
C13_FatalSourceErrorPropagates ==
    /\ \A i \in 1..Len(srcReads) :
         (~srcReads[i].ok /\ srcReads[i].kind # "Interrupted") =>
            /\ i = Len(srcReads)
            /\ pc = "returned" /\ result = "Err" /\ errKind = srcReads[i].kind
    /\ result = "Ok" => (Len(stream) >= Len(content)
                          /\ SubSeq(stream, 1, Len(content)) = content)

C13_Witness ==
    /\ pc = "returned" /\ result = "Err" /\ errKind = "Other" /\ returned > 0
    /\ ~Last(srcReads).ok /\ Last(srcReads).kind = "Other"

\* the sizes of the successful reads of the source, in order
OkReads == SelectSeq(srcReads, LAMBDA r : r.ok)

RECURSIVE SumTo(_, _)
SumTo(s, i) == IF i = 0 THEN 0 ELSE s[i].n + SumTo(s, i - 1)

\* C14: the i-th Progress event carries the sum of the sizes of the first i
\* successful reads of the source, one event per successful read, and the
\* counts never decrease.
C14_ProgressIsCumulative ==
    /\ Len(progressCalls) = Len(OkReads)
    /\ \A i \in 1..Len(progressCalls) : progressCalls[i] = SumTo(OkReads, i)
    /\ \A i \in 1..(Len(progressCalls) - 1) : progressCalls[i] <= progressCalls[i + 1]

C14_Witness ==
    /\ Len(progressCalls) >= 3 /\ Len(srcReads) > Len(progressCalls)
    /\ progressCalls[1] < progressCalls[2] /\ progressCalls[2] < progressCalls[3]

\* C15: between the construction and the first call of decoder.read nothing has
\* been read from the data source, the offset is 0 and no update has reached
\* the callback; bytes are read only once the decoder has been read.
C15_OpenOnlyBinds ==
    /\ (pc = "loop" /\ ~dec.header) =>
          /\ srcPos = 0 /\ srcReads = <<>> /\ offset = 0 /\ buf = <<>>
          /\ cbLog = <<>> /\ progressCalls = <<>> /\ emitted = <<>>
          /\ returned = 0 /\ verified = 0 /\ result = "none"
          /\ hash = RootHash(content) /\ outboard = Outboard(content)
    /\ (srcReads # <<>> \/ cbLog # <<>>) => (dec.header \/ pc = "dropped")

C15_Witness ==
    /\ pc = "loop" /\ ~dec.header /\ Len(stream) = MaxLen + 1 /\ chan.closed

----------------------------------------------------------------------------
\* Hash: its text form, parsing and order.

\* the number of bytes of a Hash
HashBytes == 32

\* a text is a sequence of symbols: 0..63 are the characters of the URL-safe
\* alphabet by their 6-bit value, Pad is '=', Bad is any other character
Pad == 64
Bad == 65

\* the standard encoding of the bytes b, three bytes to four symbols, with a
\* tail of two or three symbols and no padding
RECURSIVE EncodeBytes(_)
EncodeBytes(b) ==
    IF Len(b) = 0 THEN <<>>
    ELSE IF Len(b) = 1 THEN <<b[1] \div 4, (b[1] % 4) * 16>>
    ELSE IF Len(b) = 2
         THEN <<b[1] \div 4, (b[1] % 4) * 16 + b[2] \div 16, (b[2] % 16) * 4>>
    ELSE <<b[1] \div 4, (b[1] % 4) * 16 + b[2] \div 16,
           (b[2] % 16) * 4 + b[3] \div 64, b[3] % 64>>
         \o EncodeBytes(SubSeq(b, 4, Len(b)))

\* the bytes the symbols t stand for, trailing bits dropped
RECURSIVE DecodeSymbols(_)
DecodeSymbols(t) ==
    IF Len(t) < 2 THEN <<>>
    ELSE IF Len(t) = 2 THEN <<t[1] * 4 + t[2] \div 16>>
    ELSE IF Len(t) = 3
         THEN <<t[1] * 4 + t[2] \div 16, (t[2] % 16) * 16 + t[3] \div 4>>
    ELSE <<t[1] * 4 + t[2] \div 16, (t[2] % 16) * 16 + t[3] \div 4,
           (t[3] % 4) * 64 + t[4]>>
         \o DecodeSymbols(SubSeq(t, 5, Len(t)))

\* the bits of the last symbol of t that belong to no byte
TrailingBits(t) ==
    IF Len(t) % 4 = 2 THEN t[Len(t)] % 16
    ELSE IF Len(t) % 4 = 3 THEN t[Len(t)] % 4
    ELSE 0

DecodeOk(b) == [ok |-> TRUE, bytes |-> b, err |-> "none"]
DecodeErr(e) == [ok |-> FALSE, bytes |-> <<>>, err |-> e]

\* URL_SAFE_NO_PAD.decode: padding is not accepted, nor a character outside
\* the alphabet, nor a length of 4k+1, nor non-zero trailing bits
EngineDecode(t, padding) ==
    LET body == IF padding = "Indifferent" /\ Len(t) > 0 /\ t[Len(t)] = Pad
                THEN SubSeq(t, 1, Len(t) - 1) ELSE t
    IN  IF \E i \in 1..Len(body) : body[i] = Bad THEN DecodeErr("InvalidByte")
        ELSE IF \E i \in 1..Len(body) : body[i] = Pad THEN DecodeErr("InvalidPadding")
        ELSE IF Len(body) % 4 = 1 THEN DecodeErr("InvalidLength")
        ELSE IF TrailingBits(body) # 0 THEN DecodeErr("InvalidLastSymbol")
        ELSE DecodeOk(DecodeSymbols(body))

\* encode: Base64 URL SAFE without padding
encode(b) == EncodeBytes(b)

\* decode with an engine that takes padding or leaves it
decode_any_padding(t) == EngineDecode(t, "Indifferent")

\* decode: Base64 URL SAFE without padding
decode(t) == EngineDecode(t, "RequireNone")

\* Display with the padded alphabet
fmt_padded(h) == encode(h) \o <<Pad>>

\* Display for Hash
fmt(h) == encode(h)

ParseOk(h) == [ok |-> TRUE, hash |-> h, err |-> "none"]
ParseErr(e) == [ok |-> FALSE, hash |-> <<>>, err |-> e]

\* from_str that takes the first 32 bytes of a longer value
from_str_prefix(t) ==
    LET v == decode(t)
    IN  IF ~v.ok THEN ParseErr("DecodeError")
        ELSE IF Len(v.bytes) < HashBytes THEN ParseErr("InvalidLength")
        ELSE ParseOk(SubSeq(v.bytes, 1, HashBytes))

\* FromStr for Hash: the error of decode, then the check of the length
from_str(t) ==
    LET v == decode(t)
    IN  IF ~v.ok THEN ParseErr("DecodeError")
        ELSE IF Len(v.bytes) # HashBytes THEN ParseErr("InvalidLength")
        ELSE ParseOk(v.bytes)

\* the comparison of two byte slices from position i on
RECURSIVE SliceCmp(_, _, _)
SliceCmp(a, b, i) ==
    IF i > Len(a) \/ i > Len(b)
    THEN (IF Len(a) < Len(b) THEN "Less" ELSE IF Len(a) > Len(b) THEN "Greater" ELSE "Equal")
    ELSE IF a[i] < b[i] THEN "Less"
    ELSE IF a[i] > b[i] THEN "Greater"
    ELSE SliceCmp(a, b, i + 1)

Reverse(a) == [i \in 1..Len(a) |-> a[Len(a) + 1 - i]]

\* cmp that takes the last byte as the most significant
cmp_from_end(a, b) == SliceCmp(Reverse(a), Reverse(b), 1)

\* Ord for Hash
cmp(a, b) == SliceCmp(a, b, 1)

\* PartialOrd for Hash
partial_cmp(a, b) == SliceCmp(a, b, 1)

\* PartialEq for Hash (derived)
eq(a, b) == a = b

\* Hash::new: some 32 bytes that depend on the whole buffer
RECURSIVE Fold(_)
Fold(b) == IF b = <<>> THEN 40503 ELSE (Fold(SubSeq(b, 1, Len(b) - 1)) * 251 + Last(b) + 1) % 65521

Hash_new(b) == [i \in 1..HashBytes |-> ((Fold(b) + i) * (2 * i + 1) + 37 * i * i) % 256]

\* the array that is 0 but for byte y at position p
Arr(p, y) == [i \in 1..HashBytes |-> IF i = p THEN y ELSE 0]

Buffers == {<<>>, <<0>>, <<255>>, <<1, 2>>, <<2, 1>>}

Hashes ==
    {Hash_new(b) : b \in Buffers}
        \cup {Arr(1, 0), Arr(1, 1), Arr(2, 255), Arr(HashBytes, 1), Arr(HashBytes, 255)}

\* texts around the text form of a: encodings of 30, 31, 32 and 33 bytes, one
\* symbol more or less, padding, a foreign character, non-zero trailing bits
Texts(a) ==
    LET t == encode(a)
        n == Len(t)
    IN  {t, <<>>,
         encode(SubSeq(a, 1, HashBytes - 2)), encode(SubSeq(a, 1, HashBytes - 1)),
         encode(Append(a, a[1])),
         SubSeq(t, 1, n - 1), SubSeq(t, 1, n - 2), Append(t, 0), t \o <<0, 0>>,
         Append(t, Pad), Append(encode(SubSeq(a, 1, HashBytes - 1)), Pad),
         [t EXCEPT ![n] = (@ + 1) % 64], [t EXCEPT ![n] = (@ + 2) % 64]}
        \cup {[t EXCEPT ![p] = Bad] : p \in {1, n}}

\* the verifier and the channel are not in use
Idle ==
    /\ content = <<>> /\ stream = <<>>
    /\ hash = RootHash(content) /\ outboard = Outboard(content)
    /\ srcPos = 0 /\ errBudget = 0 /\ offset = 0 /\ cbLog = <<>> /\ buf = <<>>
    /\ dec = Decoder_new(hash) /\ chunkBuf = <<>> /\ pc = "off"
    /\ result = "none" /\ errKind = "none" /\ returned = 0 /\ verified = 0
    /\ srcReads = <<>> /\ progressCalls = <<>>
    /\ chan = Progress_none /\ received = <<>> /\ emitted = <<>>
    /\ sendPc = "idle" /\ sendRet = "none"

NoVal == [text |-> <<>>, parsed |-> ParseErr("none"), retext |-> <<>>,
          ord |-> "none", pord |-> "none", eq |-> FALSE]

HashInit ==
    /\ Idle
    /\ \E a \in Hashes, b \in Hashes : \E t \in Texts(a) :
          orig = [a |-> a, b |-> b, text |-> t]
    /\ val = NoVal
    /\ trace = <<>>

\* hash.to_string(): of the hash a, or of the hash a parse has produced
HashToString ==
    /\ \/ /\ trace = <<>>
          /\ val' = [val EXCEPT !.text = fmt(orig.a)]
       \/ /\ trace # <<>> /\ Last(trace) = "from_str" /\ val.parsed.ok
          /\ val' = [val EXCEPT !.retext = fmt(val.parsed.hash)]
    /\ trace' = Append(trace, "fmt")
    /\ UNCHANGED <<verifierVars, chanVars, orig>>

\* Hash::from_str: of the given text, or of the text form of the hash a
HashFromStr ==
    /\ trace \in {<<>>, <<"fmt">>}
    /\ LET t == IF trace = <<>> THEN orig.text ELSE val.text
       IN  val' = [val EXCEPT !.text = t, !.parsed = from_str(t)]
    /\ trace' = Append(trace, "from_str")
    /\ UNCHANGED <<verifierVars, chanVars, orig>>

\* a.cmp(&b) and a == b
HashCmp ==
    /\ trace = <<>>
    /\ val' = [val EXCEPT !.ord = cmp(orig.a, orig.b), !.eq = eq(orig.a, orig.b)]
    /\ trace' = <<"cmp">>
    /\ UNCHANGED <<verifierVars, chanVars, orig>>

\* a.partial_cmp(&b)
HashPartialCmp ==
    /\ trace = <<"cmp">>
    /\ val' = [val EXCEPT !.pord = partial_cmp(orig.a, orig.b)]
    /\ trace' = Append(trace, "partial_cmp")
    /\ UNCHANGED <<verifierVars, chanVars, orig>>

HashNext == HashToString \/ HashFromStr \/ HashCmp \/ HashPartialCmp

HashSpec == HashInit /\ [][HashNext]_vars

\* C16: the text form of a hash parses, and parses to that hash.
C16_DisplayFromStrRoundTrip ==
    trace = <<"fmt", "from_str">> =>
        /\ val.text = fmt(orig.a)
        /\ val.parsed.ok
        /\ val.parsed.hash = orig.a

C16_Witness ==
    /\ trace = <<"fmt", "from_str">> /\ val.parsed.ok
    /\ orig.a = Hash_new(<<1, 2>>) /\ Len(val.text) = 43

\* t is unpadded URL-safe base64: characters of the alphabet only, a length
\* that some number of bytes encodes to, and no stray bits in the last symbol
WellFormed(t) ==
    /\ \A i \in 1..Len(t) : t[i] \in 0..63
    /\ Len(t) % 4 # 1
    /\ TrailingBits(t) = 0

\* the number of bytes a well-formed text of n symbols stands for
ByteCount(n) == (n * 6) \div 8

\* C17: parsing a text that is not unpadded URL-safe base64 fails with the
\* decode error, parsing a well-formed text of other than 32 bytes fails with
\* the length error, the two are different errors, and a failed parse yields
\* no hash.
C17_ParseErrorsDistinct ==
    trace = <<"from_str">> =>
        /\ ~WellFormed(orig.text) => (~val.parsed.ok /\ val.parsed.err = "DecodeError")
        /\ (WellFormed(orig.text) /\ ByteCount(Len(orig.text)) # HashBytes)
              => (~val.parsed.ok /\ val.parsed.err = "InvalidLength")
        /\ (WellFormed(orig.text) /\ ByteCount(Len(orig.text)) = HashBytes)
              => val.parsed.ok
        /\ ~val.parsed.ok => val.parsed.hash = <<>>

C17_Witness ==
    /\ trace = <<"from_str">> /\ ~val.parsed.ok /\ val.parsed.err = "InvalidLength"
    /\ WellFormed(orig.text) /\ ByteCount(Len(orig.text)) = HashBytes + 1

\* C18: the text form of a parsed hash is the text that was parsed, both for
\* the text form of a 32-byte array and for any text the parse accepts.
C18_ReencodeIsIdentity ==
    (Len(trace) >= 2 /\ Last(trace) = "fmt") =>
        /\ val.parsed.ok
        /\ val.retext = val.text
        /\ trace = <<"from_str", "fmt">> => val.retext = orig.text
        /\ trace = <<"fmt", "from_str", "fmt">> => val.retext = encode(orig.a)

C18_Witness ==
    /\ trace = <<"from_str", "fmt">> /\ val.retext = orig.text
    /\ Len(orig.text) = 43 /\ orig.a = Arr(HashBytes, 255)

\* a is before b in the lexicographic order of the bytes
LexLess(a, b) ==
    \E i \in 1..HashBytes : a[i] < b[i] /\ \A j \in 1..(i - 1) : a[j] = b[j]

\* C19: two hashes are equal iff all their bytes are, cmp is the lexicographic
\* order of the bytes, partial_cmp agrees with it, and cmp is Equal exactly
\* for equal hashes.
C19_OrderIsLexicographic ==
    /\ trace # <<>> /\ trace[1] = "cmp" =>
          /\ val.eq <=> (\A i \in 1..HashBytes : orig.a[i] = orig.b[i])
          /\ val.ord = "Less" <=> LexLess(orig.a, orig.b)
          /\ val.ord = "Greater" <=> LexLess(orig.b, orig.a)
          /\ val.ord = "Equal" <=> val.eq
          /\ val.ord \in {"Less", "Equal", "Greater"}
    /\ trace = <<"cmp", "partial_cmp">> => val.pord = val.ord

C19_Witness ==
    /\ trace = <<"cmp", "partial_cmp">> /\ val.ord = "Greater"
    /\ orig.a = Arr(1, 1) /\ orig.b = Arr(HashBytes, 255)

----------------------------------------------------------------------------
\* canonicalize_path

\* the characters of a path: a letter, the dot, the two separators, and a byte
\* that is not valid unicode
NonUnicode == "#"
PathChars == {"a", ".", "/", "\\", NonUnicode}

Paths == UNION {[1..n -> PathChars] : n \in 0..MaxPathLen}

\* the pieces of p between forward slashes, from character i on
RECURSIVE SplitAt(_, _, _)
SplitAt(p, i, cur) ==
    IF i > Len(p) THEN <<cur>>
    ELSE IF p[i] = "/" THEN <<cur>> \o SplitAt(p, i + 1, <<>>)
    ELSE SplitAt(p, i + 1, Append(cur, p[i]))

Split(p) == SplitAt(p, 1, <<>>)

\* Path::components of a unix path: the root, then a component per piece,
\* where empty pieces are skipped and so is `.` unless it starts the path
RECURSIVE ComponentsFrom(_, _)
ComponentsFrom(segs, k) ==
    IF k > Len(segs) THEN <<>>
    ELSE LET seg == segs[k]
             rest == ComponentsFrom(segs, k + 1)
         IN  IF seg = <<>> THEN rest
             ELSE IF seg = <<".">>
                  THEN (IF k = 1 THEN <<[kind |-> "CurDir", name |-> seg]>> \o rest ELSE rest)
             ELSE IF seg = <<".", ".">> THEN <<[kind |-> "ParentDir", name |-> seg]>> \o rest
             ELSE <<[kind |-> "Normal", name |-> seg]>> \o rest

Components(p) ==
    (IF Len(p) > 0 /\ p[1] = "/" THEN <<[kind |-> "RootDir", name |-> <<"/">>]>> ELSE <<>>)
        \o ComponentsFrom(Split(p), 1)

Contains(name, ch) == \E i \in 1..Len(name) : name[i] = ch

\* join with nothing between the parts
RECURSIVE Join_concat(_)
Join_concat(parts) ==
    IF Len(parts) = 0 THEN <<>> ELSE parts[1] \o Join_concat(Tail(parts))

\* join with the separator after every part
RECURSIVE Join_trailing(_)
Join_trailing(parts) ==
    IF Len(parts) = 0 THEN <<>> ELSE parts[1] \o <<"/">> \o Join_trailing(Tail(parts))

\* parts.join("/")
RECURSIVE Join(_)
Join(parts) ==
    IF Len(parts) = 0 THEN <<>>
    ELSE IF Len(parts) = 1 THEN parts[1]
    ELSE parts[1] \o <<"/">> \o Join(Tail(parts))

PathOk(t) == [ok |-> TRUE, text |-> t, err |-> "none"]
PathErr(e) == [ok |-> FALSE, text |-> <<>>, err |-> e]

\* a collect that rejects the components that are not Normal before it looks
\* at the characters of any
RECURSIVE CollectParts_kinds_first(_, _, _)
CollectParts_kinds_first(cs, i, parts) ==
    IF \E k \in 1..Len(cs) : cs[k].kind # "Normal" THEN PathErr("invalid path component")
    ELSE IF i > Len(cs) THEN PathOk(Join(parts))
    ELSE IF Contains(cs[i].name, NonUnicode) THEN PathErr("invalid character in path")
    ELSE IF Contains(cs[i].name, "/") \/ Contains(cs[i].name, "\\")
         THEN PathErr("invalid path component")
    ELSE CollectParts_kinds_first(cs, i + 1, Append(parts, cs[i].name))

\* the map over the components and the collect: the first error ends it
RECURSIVE CollectParts(_, _, _)
CollectParts(cs, i, parts) ==
    IF i > Len(cs) THEN PathOk(Join(parts))
    ELSE IF cs[i].kind # "Normal" THEN PathErr("invalid path component")
    ELSE IF Contains(cs[i].name, NonUnicode) THEN PathErr("invalid character in path")
    ELSE IF Contains(cs[i].name, "/") \/ Contains(cs[i].name, "\\")
         THEN PathErr("invalid path component")
    ELSE CollectParts(cs, i + 1, Append(parts, cs[i].name))

canonicalize_path(p) == CollectParts(Components(p), 1, <<>>)

PathInit ==
    /\ Idle
    /\ \E p \in Paths : orig = [path |-> p]
    /\ val = PathErr("none")
    /\ trace = <<>>

CanonicalizePath ==
    /\ trace = <<>>
    /\ val' = canonicalize_path(orig.path)
    /\ trace' = <<"canonicalize_path">>
    /\ UNCHANGED <<verifierVars, chanVars, orig>>

PathNext == CanonicalizePath

PathSpec == PathInit /\ [][PathNext]_vars

\* the path as written has a `.` or `..` between separators, starts at the
\* root, or has a backslash in a component
HasInvalidComponent(p) ==
    \/ Len(p) > 0 /\ p[1] = "/"
    \/ \E k \in 1..Len(Split(p)) :
          \/ Split(p)[k] \in {<<".">>, <<".", ".">>}
          \/ Contains(Split(p)[k], "\\")

\* C20: canonicalize_path fails on every path with a `.` or `..` component, a
\* root marker or a component with a separator in it, wherever the component
\* stands.
C20_InvalidComponentAlwaysFails ==
    (trace = <<"canonicalize_path">> /\ HasInvalidComponent(orig.path)) => ~val.ok

\* the names of the components of p, in order
Names(p) == [k \in 1..Len(Components(p)) |-> Components(p)[k].name]

\* C21: a successful canonicalize_path returns the names of the components of
\* the path, in order, with one '/' between two names and none before the
\* first or after the last.
C21_ResultIsComponentsJoined ==
    (trace = <<"canonicalize_path">> /\ val.ok) =>
        /\ Split(val.text) = (IF Names(orig.path) = <<>> THEN <<(<<>>)>> ELSE Names(orig.path))
        /\ \A k \in 1..Len(Names(orig.path)) :
              Names(orig.path)[k] # <<>> /\ ~Contains(Names(orig.path)[k], "/")
        /\ val.text # <<>> => (val.text[1] # "/" /\ Last(val.text) # "/")
        /\ \A i \in 1..(Len(val.text) - 1) : ~(val.text[i] = "/" /\ val.text[i + 1] = "/")

C21_Witness ==
    /\ trace = <<"canonicalize_path">> /\ val.ok
    /\ orig.path = <<"a", "/", "a">> /\ val.text = <<"a", "/", "a">>

\* what the check of one component says of it
ComponentError(c) ==
    IF c.kind # "Normal" THEN "invalid path component"
    ELSE IF Contains(c.name, NonUnicode) THEN "invalid character in path"
    ELSE IF Contains(c.name, "\\") THEN "invalid path component"
    ELSE "none"

BadComponents(p) == {k \in 1..Len(Components(p)) : ComponentError(Components(p)[k]) # "none"}

FirstBad(p) == CHOOSE k \in BadComponents(p) : \A j \in BadComponents(p) : k <= j

\* C23: a path with a component that is not valid unicode fails; the error of
\* a failing canonicalize_path is the one of the first bad component in path
\* order, "invalid character in path" for a component that is not unicode and
\* "invalid path component" otherwise; and a failure carries no string.
C23_FirstBadComponentDecides ==
    trace = <<"canonicalize_path">> =>
        /\ (\E k \in 1..Len(Components(orig.path)) :
               Contains(Components(orig.path)[k].name, NonUnicode)) => ~val.ok
        /\ val.ok <=> BadComponents(orig.path) = {}
        /\ ~val.ok =>
              /\ val.err = ComponentError(Components(orig.path)[FirstBad(orig.path)])
              /\ val.err \in {"invalid character in path", "invalid path component"}
              /\ val.text = <<>>

C23_Witness ==
    /\ trace = <<"canonicalize_path">> /\ ~val.ok
    /\ orig.path = <<NonUnicode, "/", ".", ".">> /\ val.err = "invalid character in path"

----------------------------------------------------------------------------
\* canonicalize_path on two paths

PairChars == {"a", "b", ".", "/"}

PairPaths == UNION {[1..n -> PairChars] : n \in 0..MaxPairLen}

PairInit ==
    /\ Idle
    /\ \E p \in PairPaths, q \in PairPaths : orig = [path |-> p, other |-> q]
    /\ val = [first |-> PathErr("none"), second |-> PathErr("none")]
    /\ trace = <<>>

CanonicalizeFirst ==
    /\ trace = <<>>
    /\ val' = [val EXCEPT !.first = canonicalize_path(orig.path)]
    /\ trace' = <<"first">>
    /\ UNCHANGED <<verifierVars, chanVars, orig>>

CanonicalizeSecond ==
    /\ trace = <<"first">>
    /\ val' = [val EXCEPT !.second = canonicalize_path(orig.other)]
    /\ trace' = <<"first", "second">>
    /\ UNCHANGED <<verifierVars, chanVars, orig>>

PairNext == CanonicalizeFirst \/ CanonicalizeSecond

PairSpec == PairInit /\ [][PairNext]_vars

BothAccepted == trace = <<"first", "second">> /\ val.first.ok /\ val.second.ok

\* C22 as claimed: the same path gives the same result, and two different
\* paths that are both accepted give different strings.
C22_InjectiveOnPaths ==
    /\ (trace = <<"first", "second">> /\ orig.path = orig.other) => val.first = val.second
    /\ (BothAccepted /\ orig.path # orig.other) => val.first.text # val.second.text

\* C22 amended: the same path gives the same result, and two accepted paths
\* give the same string exactly when they have the same components (paths
\* that differ only in repeated or trailing separators or in a `.` after the
\* first component have the same components).
C22_InjectiveOnComponents ==
    /\ (trace = <<"first", "second">> /\ orig.path = orig.other) => val.first = val.second
    /\ BothAccepted =>
          (val.first.text = val.second.text <=> Components(orig.path) = Components(orig.other))

C22_Witness ==
    /\ BothAccepted
    /\ orig.path = <<"a", "/", "b">> /\ orig.other = <<"a", "b">>
    /\ val.first.text # val.second.text

----------------------------------------------------------------------------
\* Host for String and &'static str

\* the largest u16
U16Max == 65535

Digits == {"0", "1", "2", "3", "4", "5", "6", "7", "8", "9"}

DigitVal(c) ==
    CASE c = "0" -> 0 [] c = "1" -> 1 [] c = "2" -> 2 [] c = "3" -> 3 [] c = "4" -> 4
      [] c = "5" -> 5 [] c = "6" -> 6 [] c = "7" -> 7 [] c = "8" -> 8 [] c = "9" -> 9

Some(n) == [some |-> TRUE, n |-> n]
None == [some |-> FALSE, n |-> 0]

\* the digits of t from position i on, added to acc with checked arithmetic
RECURSIVE ParseDigits(_, _, _)
ParseDigits(t, i, acc) ==
    IF i > Len(t) THEN Some(acc)
    ELSE IF t[i] \notin Digits THEN None
    ELSE IF acc * 10 + DigitVal(t[i]) > U16Max THEN None
    ELSE ParseDigits(t, i + 1, acc * 10 + DigitVal(t[i]))

\* str::parse::<u16>().ok(): an optional '+', then one digit or more, no overflow
ParseU16(t) ==
    LET digits == IF Len(t) > 0 /\ t[1] = "+" THEN Tail(t) ELSE t
    IN  IF digits = <<>> THEN None ELSE ParseDigits(digits, 1, 0)

\* the position of the first delimiter in str from i on, 0 if there is none
RECURSIVE Find(_, _, _)
Find(str, delimiter, i) ==
    IF i > Len(str) THEN 0
    ELSE IF str[i] = delimiter THEN i
    ELSE Find(str, delimiter, i + 1)

\* the position of the last delimiter in str, 0 if there is none
RECURSIVE RFind(_, _, _)
RFind(str, delimiter, i) ==
    IF i < 1 THEN 0
    ELSE IF str[i] = delimiter THEN i
    ELSE RFind(str, delimiter, i - 1)

SplitPair(str, at) ==
    IF at = 0 THEN [found |-> FALSE, prefix |-> <<>>, suffix |-> <<>>]
    ELSE [found |-> TRUE, prefix |-> SubSeq(str, 1, at - 1),
          suffix |-> SubSeq(str, at + 1, Len(str))]

\* a split at the last delimiter
str_rsplit_once(str, delimiter) == SplitPair(str, RFind(str, delimiter, Len(str)))

\* str_split_once: splitn(2, delimiter), None when there is no second piece
str_split_once(str, delimiter) == SplitPair(str, Find(str, delimiter, 1))

\* Host::hostname
hostname(self) ==
    LET sp == str_split_once(self, ":")
    IN  IF sp.found THEN sp.prefix ELSE self

\* Host::port
port(self) ==
    LET sp == str_split_once(self, ":")
    IN  IF sp.found THEN ParseU16(sp.suffix) ELSE None

HostNames == {<<>>, <<"a">>, <<"a", ".", "a">>}

PortChars == {"6", "5", "3", ":", "a", "+"}

PortTexts == UNION {[1..n -> PortChars] : n \in 0..MaxPortLen}

\* a hostname alone, or a hostname, a ':' and any text
HostTexts == HostNames \cup {h \o <<":">> \o t : h \in HostNames, t \in PortTexts}

HostInit ==
    /\ Idle
    /\ \E s \in HostTexts : orig = [host |-> s]
    /\ val = [hostname |-> <<>>, port |-> None]
    /\ trace = <<>>

HostHostname ==
    /\ trace = <<>>
    /\ val' = [val EXCEPT !.hostname = hostname(orig.host)]
    /\ trace' = <<"hostname">>
    /\ UNCHANGED <<verifierVars, chanVars, orig>>

HostPort ==
    /\ trace = <<"hostname">>
    /\ val' = [val EXCEPT !.port = port(orig.host)]
    /\ trace' = <<"hostname", "port">>
    /\ UNCHANGED <<verifierVars, chanVars, orig>>

HostNext == HostHostname \/ HostPort

HostSpec == HostInit /\ [][HostNext]_vars

Colons(s) == {i \in 1..Len(s) : s[i] = ":"}

FirstColon(s) == CHOOSE i \in Colons(s) : \A j \in Colons(s) : i <= j

\* the text after the first ':' of s
AfterColon(s) == SubSeq(s, FirstColon(s) + 1, Len(s))

RECURSIVE Pow10(_)
Pow10(k) == IF k = 0 THEN 1 ELSE 10 * Pow10(k - 1)

RECURSIVE Decimal(_, _)
Decimal(t, k) ==
    IF k = 0 THEN 0 ELSE DigitVal(t[k]) * Pow10(Len(t) - k) + Decimal(t, k - 1)

\* t is the decimal text of a u16, with or without a '+' before it
IsU16Text(t) ==
    LET d == IF Len(t) > 0 /\ t[1] = "+" THEN Tail(t) ELSE t
    IN  /\ d # <<>>
        /\ \A i \in 1..Len(d) : d[i] \in Digits
        /\ Decimal(d, Len(d)) <= U16Max

U16Value(t) ==
    LET d == IF t[1] = "+" THEN Tail(t) ELSE t IN Decimal(d, Len(d))

\* C24: hostname() is the text before the first ':', the whole text when it
\* has none; port() is Some(n) exactly when the whole text after the first ':'
\* is the text of the u16 n, and None otherwise.
C24_HostSplitsAtFirstColon ==
    /\ trace # <<>> =>
          val.hostname = IF Colons(orig.host) = {} THEN orig.host
                         ELSE SubSeq(orig.host, 1, FirstColon(orig.host) - 1)
    /\ trace = <<"hostname", "port">> =>
          /\ val.port.some <=>
                (Colons(orig.host) # {} /\ IsU16Text(AfterColon(orig.host)))
          /\ val.port.some => val.port.n = U16Value(AfterColon(orig.host))
          /\ ~val.port.some => val.port = None

C24_Witness ==
    /\ trace = <<"hostname", "port">>
    /\ orig.host = <<"a", ".", "a", ":", "6", ":", "5">>
    /\ val.hostname = <<"a", ".", "a">> /\ val.port = None

----------------------------------------------------------------------------
\* the events of one stream

HasDone(log) == \E i \in 1..Len(log) : log[i].kind = "Done"

\* C25: the events of a stream are only ever added at the end, Done is the
\* last of them, and once Done is emitted no event follows and the callback of
\* the caller is not called again.
C25_DoneIsLast ==
    [][/\ Len(cbLog') >= Len(cbLog) /\ SubSeq(cbLog', 1, Len(cbLog)) = cbLog
       /\ HasDone(cbLog) => (cbLog' = cbLog /\ progressCalls' = progressCalls
                               /\ offset' = offset)
       /\ \A i \in 1..Len(cbLog') : cbLog'[i].kind = "Done" => i = Len(cbLog')
       /\ \A i \in 1..Len(emitted') : emitted'[i].kind = "Done" => i = Len(emitted')]_vars

C25_Witness ==
    /\ pc = "dropped" /\ Len(cbLog) >= 3 /\ Last(cbLog).kind = "Done"
    /\ \E i \in 1..Len(srcReads) : ~srcReads[i].ok
    /\ DoneEmitted

\* the step is a read of the source that failed, or one that succeeded
ReadFailedStep == Len(srcReads') = Len(srcReads) + 1 /\ ~Last(srcReads').ok
ReadOkStep == Len(srcReads') = Len(srcReads) + 1 /\ Last(srcReads').ok

\* C26: a read of the source that fails leaves the offset where it was and
\* emits no Progress event, and the error is the one validate_bao fails with
\* unless read_exact retries it; the next successful read adds its size to the
\* unchanged offset and reports the sum.
C26_FailedReadKeepsOffset ==
    [][/\ ReadFailedStep =>
            /\ offset' = offset /\ srcPos' = srcPos
            /\ progressCalls' = progressCalls
            /\ CountKind(cbLog', "Progress") = CountKind(cbLog, "Progress")
            /\ Last(srcReads').kind # "Interrupted" =>
                  (pc' = "returned" /\ result' = "Err" /\ errKind' = Last(srcReads').kind)
            /\ Last(srcReads').kind = "Interrupted" => pc' = "fill"
       /\ ReadOkStep =>
            /\ offset' = offset + Last(srcReads').n
            /\ progressCalls' = Append(progressCalls, offset + Last(srcReads').n)]_vars

C26_Witness ==
    /\ Len(srcReads) >= 3 /\ srcReads[1].ok /\ ~srcReads[2].ok /\ srcReads[3].ok
    /\ srcReads[3].n > 0
    /\ offset = srcReads[1].n + srcReads[3].n /\ Len(progressCalls) = 2

\* C27: every successful read of the source emits one Progress event, a read
\* of 0 bytes too, and that event repeats the count of the one before it.
C27_EmptyReadRepeatsOffset ==
    /\ CountKind(cbLog, "Progress") = Len(OkReads)
    /\ \A i \in 1..Len(OkReads) :
          OkReads[i].n = 0 =>
             /\ i <= Len(progressCalls)
             /\ progressCalls[i] = (IF i = 1 THEN 0 ELSE progressCalls[i - 1])

C27_Witness ==
    /\ Len(progressCalls) >= 2
    /\ progressCalls[Len(progressCalls)] = progressCalls[Len(progressCalls) - 1]
    /\ Last(OkReads).n = 0 /\ Last(progressCalls) > 0

\* the calls of the caller's callback the events of log stand for
RECURSIVE Counts(_)
Counts(log) ==
    IF log = <<>> THEN <<>>
    ELSE (IF Head(log).kind = "Progress" THEN <<Head(log).n>> ELSE <<>>) \o Counts(Tail(log))

\* C30: the callback given to validate_bao is called once for each Progress(N)
\* event, with N, in order, and is not called for Done; what it passes to the
\* channel are these counts.
C30_CallbackGetsCountsOnly ==
    /\ progressCalls = Counts(cbLog)
    /\ Len(progressCalls) = Len(cbLog) - (IF HasDone(cbLog) THEN 1 ELSE 0)
    /\ pc \in {"loop", "fill"} =>
          progressCalls = [i \in 1..Len(emitted) |-> emitted[i].n]

C30_Witness ==
    /\ pc = "returned" /\ HasDone(cbLog) /\ Len(progressCalls) >= 2
    /\ Len(cbLog) = Len(progressCalls) + 1 /\ ~DoneEmitted

----------------------------------------------------------------------------
\* validate_bao alone, run to its end: no channel, the reader is not dropped
\* early, and the loop is not suspended for ever

LiveInit == Init /\ chan = Progress_none

LiveNext == validate_bao \/ SourceRead

LiveSpec == LiveInit /\ [][LiveNext]_vars /\ WF_vars(LiveNext)

\* C28: validate_bao returns, with Ok or with Err, and stays returned.
C28_Terminates ==
    <>[](pc = "returned" /\ result \in {"Ok", "Err"})

C28_Witness ==
    /\ pc = "returned" /\ result = "Err" /\ errKind = "UnexpectedEof"
    /\ Len(srcReads) >= 3 /\ \E i \in 1..Len(srcReads) : ~srcReads[i].ok

----------------------------------------------------------------------------
\* Serialize and Deserialize for Hash, over a format that writes a byte string
\* as its length followed by its bytes

\* Serializer::serialize_bytes
serialize_bytes(b) == <<Len(b)>> \o b

\* Deserializer::deserialize_bytes: the byte string the wire holds, handed to
\* the visitor, or the error of the format when the wire is too short
deserialize_bytes(wire) ==
    IF wire = <<>> \/ Len(wire) < 1 + wire[1] THEN DecodeErr("UnexpectedEnd")
    ELSE DecodeOk(SubSeq(wire, 2, 1 + wire[1]))

\* Serialize for Hash
serialize(h) == serialize_bytes(h)

\* a visitor that takes the first 32 bytes of a longer byte string
visit_bytes_prefix(v) ==
    IF Len(v) < HashBytes THEN ParseErr("custom") ELSE ParseOk(SubSeq(v, 1, HashBytes))

\* HashVisitor::visit_bytes: try_into a [u8; 32], then Hash::from
visit_bytes(v) ==
    IF Len(v) # HashBytes THEN ParseErr("custom") ELSE ParseOk(v)

\* Deserialize for Hash
deserialize(wire) ==
    LET d == deserialize_bytes(wire)
    IN  IF ~d.ok THEN ParseErr(d.err) ELSE visit_bytes(d.bytes)

\* wires around the serialized hash a: byte strings of 0, 1, 31, 32 and 33
\* bytes, and a wire cut short
Wires(a) ==
    {serialize_bytes(a), serialize_bytes(<<>>), serialize_bytes(<<a[1]>>),
     serialize_bytes(SubSeq(a, 1, HashBytes - 1)), serialize_bytes(Append(a, a[1])),
     SubSeq(serialize_bytes(a), 1, HashBytes), <<>>}

SerdeInit ==
    /\ Idle
    /\ \E a \in Hashes : \E w \in Wires(a) : orig = [a |-> a, wire |-> w]
    /\ val = [wire |-> <<>>, parsed |-> ParseErr("none")]
    /\ trace = <<>>

HashSerialize ==
    /\ trace = <<>>
    /\ val' = [val EXCEPT !.wire = serialize(orig.a)]
    /\ trace' = <<"serialize">>
    /\ UNCHANGED <<verifierVars, chanVars, orig>>

\* deserialize of the given wire, or of what serialize has written
HashDeserialize ==
    /\ trace \in {<<>>, <<"serialize">>}
    /\ LET w == IF trace = <<>> THEN orig.wire ELSE val.wire
       IN  val' = [val EXCEPT !.wire = w, !.parsed = deserialize(w)]
    /\ trace' = Append(trace, "deserialize")
    /\ UNCHANGED <<verifierVars, chanVars, orig>>

SerdeNext == HashSerialize \/ HashDeserialize

SerdeSpec == SerdeInit /\ [][SerdeNext]_vars

\* C29: deserializing what serialize wrote for a hash gives that hash, and
\* deserializing a byte string of other than 32 bytes fails and gives no hash.
C29_SerdeRoundTrip ==
    /\ trace = <<"serialize", "deserialize">> =>
          (val.parsed.ok /\ val.parsed.hash = orig.a)
    /\ trace = <<"deserialize">> =>
          /\ (orig.wire # <<>> /\ orig.wire[1] # HashBytes) =>
                (~val.parsed.ok /\ val.parsed.hash = <<>>)
          /\ val.parsed.ok =>
                (Len(orig.wire) = HashBytes + 1
                   /\ val.parsed.hash = SubSeq(orig.wire, 2, HashBytes + 1))

C29_Witness ==
    /\ trace = <<"deserialize">> /\ ~val.parsed.ok /\ val.parsed.err = "custom"
    /\ Len(orig.wire) = HashBytes + 2

====
